---- MODULE Spec2Model ----
(***************************************************************************)
(* Model of src/codecatalyst/commands.ts: the CodeCatalyst command layer.  *)
(*                                                                         *)
(* Every command invocation is an async call chain.  One action of the     *)
(* model is the code that runs between two awaits of one invocation: it    *)
(* takes the result of the awaited call (a nondeterministic input, the     *)
(* collaborators are external), runs the synchronous code that follows     *)
(* and stops at the next await or at the end of the function.              *)
(* Invocations interleave at their awaits, as on the extension host.       *)
(*                                                                         *)
(* trace[i] is the sequence of observable events of invocation i: the      *)
(* start and the end of every awaited call, and the calls that are fired   *)
(* without being awaited.                                                  *)
(***************************************************************************)
EXTENDS Integers, Sequences, FiniteSets, TLC

VARIABLES
    remoteName,  \* vscode.env.remoteName
    call,        \* call[i]: the command method invoked and its arguments
    pc,          \* pc[i]: the await at which invocation i is suspended
    wc,          \* wc[i]: the running withClient call: command, args, continuation
    client,      \* client[i]: the client the client factory returned
    completion,  \* completion[i]: how the last awaited function completed
    resource,    \* resource[i]: the local 'resource' of cloneCodeCatalystRepo
    trace,       \* trace[i]: the events of invocation i, in order
    pending,     \* pending[i]: the awaited calls that have not completed yet
    final        \* final[i]: how the command method completed

vars == <<remoteName, call, pc, wc, client, completion, resource, trace, pending, final>>

(***************************************************************************)
(* Bounds of the model.                                                    *)
(***************************************************************************)
MaxPathLen == 9

PathAlphabet == {"/", "a"}

Invocations == {"i1", "i2"}

(***************************************************************************)
(* Values.                                                                 *)
(***************************************************************************)
Undefined == [tag |-> "undefined"]

Value(v) == [tag |-> "value", v |-> v]

ToolkitError(code) == [tag |-> "error", class |-> "ToolkitError", code |-> code]

CancellationError(agent) == [tag |-> "error", class |-> "CancellationError", code |-> agent]

Error(message) == [tag |-> "error", class |-> "Error", code |-> message]

Return(v) == [ph |-> "ok", val |-> v]

Throw(e) == [ph |-> "throw", val |-> e]

Ev(op, ph, val) == [op |-> op, ph |-> ph, val |-> val]

NotApplicable == "n/a"

UserId(c) == IF c.connected THEN <<"codecatalyst", c.identity.id>> ELSE <<NotApplicable>>

Clients ==
    { [connected |-> TRUE, identity |-> [id |-> "u1", name |-> "alice"]],
      [connected |-> FALSE] }

DevEnv(id, project, org) ==
    [type |-> "devEnvironment", id |-> id, project |-> [name |-> project], org |-> [name |-> org]]

DevEnvs == { DevEnv("e1", "p1", "o1"), DevEnv("e2", "p2", "o2") }

ResourcesOf(kind) ==
    CASE kind = "org" -> { [type |-> "org", name |-> "o1"] }
      [] kind = "project" -> { [type |-> "project", name |-> "p1", org |-> [name |-> "o1"]] }
      [] kind = "repo" ->
            { [type |-> "repo", name |-> "r1", project |-> [name |-> "p1"], org |-> [name |-> "o1"]] }
      [] kind = "devEnvironment" -> DevEnvs

RemoteNames == {"undefined", "ssh-remote", "wsl"}

(***************************************************************************)
(* Strings are sequences of one-character strings.                         *)
(***************************************************************************)
Paths == UNION { [1..n -> PathAlphabet] : n \in 0..MaxPathLen }

\* String.prototype.slice(1)
Slice1(s) == SubSeq(s, 2, Len(s))

IndexOfSlash(s) ==
    IF \E k \in 1..Len(s) : s[k] = "/"
    THEN CHOOSE k \in 1..Len(s) : s[k] = "/" /\ \A j \in 1..(k - 1) : s[j] # "/"
    ELSE 0

\* String.prototype.split('/'): never empty, keeps empty pieces
RECURSIVE Split(_)
Split(s) ==
    IF IndexOfSlash(s) = 0
    THEN <<s>>
    ELSE <<SubSeq(s, 1, IndexOfSlash(s) - 1)>> \o Split(SubSeq(s, IndexOfSlash(s) + 1, Len(s)))

\* array destructuring: a missing element is undefined
Element(parts, n) == IF n <= Len(parts) THEN [tag |-> "string", s |-> parts[n]] ELSE Undefined

\* !x of a string or undefined
Falsy(x) == x = Undefined \/ x.s = <<>>

\* mutant: the first segment is not skipped
ParseUrlFromFirst(path) ==
    LET parts == Split(Slice1(path))
    IN  [org |-> Element(parts, 1), project |-> Element(parts, 2), repo |-> Element(parts, 3)]

\* const [_, org, project, repo] = url.path.slice(1).split('/')
ParseUrl(path) ==
    LET parts == Split(Slice1(path))
    IN  [org |-> Element(parts, 2), project |-> Element(parts, 3), repo |-> Element(parts, 4)]

\* mutant: { id, projectName, spaceName, ...settings }
SpreadSettingsLast(settings, devenv) ==
    LET ids == [id |-> devenv.id, projectName |-> devenv.project.name, spaceName |-> devenv.org.name]
    IN  [k \in DOMAIN settings \cup DOMAIN ids |-> IF k \in DOMAIN settings THEN settings[k] ELSE ids[k]]

\* { ...settings, id, projectName, spaceName }: the later keys win
Spread(settings, devenv) ==
    LET ids == [id |-> devenv.id, projectName |-> devenv.project.name, spaceName |-> devenv.org.name]
    IN  [k \in DOMAIN settings \cup DOMAIN ids |-> IF k \in DOMAIN ids THEN ids[k] ELSE settings[k]]

DevEnvRequest(devenv) ==
    [id |-> devenv.id, projectName |-> devenv.project.name, spaceName |-> devenv.org.name]

\* mutant: opts?.showPrompt !== false
ShowPromptUnlessFalse(opts) ==
    ~(opts # Undefined /\ "showPrompt" \in DOMAIN opts /\ ~opts.showPrompt)

\* opts?.showPrompt
ShowPrompt(opts) == opts # Undefined /\ "showPrompt" \in DOMAIN opts /\ opts.showPrompt

(***************************************************************************)
(* The command methods of CodeCatalystCommands and their arguments.        *)
(***************************************************************************)
Uri(path) == [tag |-> "uri", path |-> path]

SettingKeys == {"alias", "id", "projectName", "spaceName"}

SettingsSet == UNION { [K -> {"from-settings"}] : K \in SUBSET SettingKeys }

OptsSet ==
    { Undefined, [tag |-> "opts"], [tag |-> "opts", showPrompt |-> FALSE],
      [tag |-> "opts", showPrompt |-> TRUE] }

CallsWith(paths) ==
    { [cmd |-> "cloneRepository", url |-> u] : u \in {Undefined} \cup { Uri(p) : p \in paths } }
    \cup { [cmd |-> "createDevEnv"] }
    \cup { [cmd |-> "openResource", kind |-> k] : k \in {"org", "project", "repo"} }
    \cup { [cmd |-> "stopDevEnv", devenv |-> d, opts |-> o] : d \in DevEnvs, o \in OptsSet }
    \cup { [cmd |-> "deleteDevEnv", devenv |-> d] : d \in DevEnvs }
    \cup { [cmd |-> "updateDevEnv", devenv |-> d, settings |-> s] : d \in DevEnvs, s \in SettingsSet }
    \cup { [cmd |-> "openDevEnv", id |-> d] : d \in {Undefined} \cup DevEnvs }
    \cup { [cmd |-> "openDevEnvSettings"] }

Calls == CallsWith(Paths)

NoCall == [cmd |-> "none"]

NoWithClient == [command |-> "none", args |-> Undefined, ret |-> "none"]

InitWith(first, second) ==
    /\ remoteName \in RemoteNames
    /\ \E c1 \in first, c2 \in second :
          call = [i \in Invocations |-> IF i = "i1" THEN c1 ELSE c2]
    /\ pc = [i \in Invocations |-> IF call[i] = NoCall THEN "done" ELSE "start"]
    /\ wc = [i \in Invocations |-> NoWithClient]
    /\ client = [i \in Invocations |-> Undefined]
    /\ completion = [i \in Invocations |-> Undefined]
    /\ resource = [i \in Invocations |-> Undefined]
    /\ trace = [i \in Invocations |-> <<>>]
    /\ pending = [i \in Invocations |-> {}]
    /\ final = [i \in Invocations |-> Undefined]

\* one command is invoked, with any argument
Init == InitWith(Calls, {NoCall})

(***************************************************************************)
(* Steps of an invocation.                                                 *)
(***************************************************************************)
\* run to the await (or the end) named label, having produced the events
Step(i, label, events, waiting) ==
    /\ pc' = [pc EXCEPT ![i] = label]
    /\ trace' = [trace EXCEPT ![i] = @ \o events]
    /\ pending' = [pending EXCEPT ![i] = waiting]

\* the calls that the events settle
SettledBy(events) == { events[k].op : k \in { j \in 1..Len(events) : events[j].ph \in {"ok", "throw"} } }

\* await op(arg), after the events before it
Await(i, op, arg, label, before) ==
    Step(i, label, before \o <<Ev(op, "start", arg)>>, (pending[i] \ SettledBy(before)) \cup {op})

\* the command method settles
Finish(i, c, events) ==
    /\ final' = [final EXCEPT ![i] = c]
    /\ Step(i, "done", events, pending[i])

\* what an awaited external call can do: return one of vals, or throw
Outcomes(op, vals) == { Return(v) : v \in vals } \cup { Throw(Error(op)) }

(***************************************************************************)
(* createClientInjector: withClient(command, ...args)                      *)
(***************************************************************************)
\* const client = await clientFactory()
withClient(i, command, args, ret, before) ==
    /\ wc' = [wc EXCEPT ![i] = [command |-> command, args |-> args, ret |-> ret]]
    /\ Await(i, "clientFactory", Undefined, "clientFactory",
             before \o <<Ev("withClient", "start", [command |-> command, args |-> args])>>)

\* mutant: the record is the last statement of the try block, not a finally
RecordOnSuccess(i, cl, c, before) ==
    Step(i, wc[i].ret,
         before \o (IF c.ph = "ok"
                    THEN <<Ev("telemetry.userId", "fire", [userId |-> UserId(cl)])>>
                    ELSE <<>>)
                \o <<Ev("withClient", c.ph, c.val)>>,
         {})

\* finally { telemetry.record({ userId }) }, then withClient settles as the try block did
Finally(i, cl, c, before) ==
    Step(i, wc[i].ret,
         before \o <<Ev("telemetry.userId", "fire", [userId |-> UserId(cl)]),
                     Ev("withClient", c.ph, c.val)>>,
         {})

\* the command has settled: return await command(client, ...args)
CommandSettles(i, c, before) ==
    /\ completion' = [completion EXCEPT ![i] = c]
    /\ Step(i, "finally", before \o <<Ev("command", c.ph, c.val)>>, {})

\* mutant: client.connected is not looked at before the command is called
clientFactoryReturnUnchecked(i) ==
    /\ pc[i] = "clientFactory"
    /\ \E r \in Outcomes("clientFactory", Clients) :
          LET done == <<Ev("clientFactory", r.ph, r.val)>>
          IN  IF r.ph = "throw"
              THEN /\ completion' = [completion EXCEPT ![i] = r]
                   /\ Step(i, wc[i].ret, done \o <<Ev("withClient", r.ph, r.val)>>, {})
                   /\ UNCHANGED client
              ELSE /\ client' = [client EXCEPT ![i] = r.val]
                   /\ UNCHANGED completion
                   /\ Step(i, wc[i].command,
                           done \o <<Ev("command", "start",
                                        [client |-> r.val, args |-> wc[i].args])>>,
                           {})
    /\ UNCHANGED <<remoteName, call, wc, resource, final>>

clientFactoryReturn(i) ==
    /\ pc[i] = "clientFactory"
    /\ \E r \in Outcomes("clientFactory", Clients) :
          LET done == <<Ev("clientFactory", r.ph, r.val)>>
          IN  IF r.ph = "throw"
              THEN /\ completion' = [completion EXCEPT ![i] = r]
                   /\ Step(i, wc[i].ret, done \o <<Ev("withClient", r.ph, r.val)>>, {})
                   /\ UNCHANGED client
              ELSE /\ client' = [client EXCEPT ![i] = r.val]
                   /\ IF ~r.val.connected
                      THEN /\ completion' = [completion EXCEPT ![i] = Throw(ToolkitError("NoConnection"))]
                           /\ Finally(i, r.val, Throw(ToolkitError("NoConnection")), done)
                      ELSE /\ UNCHANGED completion
                           /\ Step(i, wc[i].command,
                                   done \o <<Ev("command", "start",
                                                [client |-> r.val, args |-> wc[i].args])>>,
                                   {})
    /\ UNCHANGED <<remoteName, call, wc, resource, final>>

withClientFinally(i) ==
    /\ pc[i] = "finally"
    /\ Finally(i, client[i], completion[i], <<>>)
    /\ UNCHANGED <<remoteName, call, wc, client, completion, resource, final>>

(***************************************************************************)
(* The commands that take the client.                                      *)
(***************************************************************************)
ResourceOf(r) == [name |-> r.name, project |-> r.project.name, org |-> r.org.name]

\* mutant: getPat() is passed on without await, the lookup starts while it runs
getPatNotAwaited(i, before) ==
    Step(i, "clone.getPat",
         before \o <<Ev("getPat", "start", [client |-> client[i]]),
                     Ev("getRepoCloneUrl", "start", [pat |-> Undefined])>>,
         (pending[i] \ SettledBy(before)) \cup {"getPat", "getRepoCloneUrl"})

\* await getPat(), the last argument of getRepoCloneUrl
getPat(i, before) == Await(i, "getPat", [client |-> client[i]], "clone.getPat", before)

cloneCodeCatalystRepo(i) ==
    /\ pc[i] = "cloneCodeCatalystRepo"
    /\ LET url == wc[i].args.url
           parsed == ParseUrl(url.path)
       IN  IF url = Undefined
           THEN /\ Await(i, "selectCodeCatalystResource", [kind |-> "repo"], "clone.select", <<>>)
                /\ UNCHANGED <<completion, resource>>
           ELSE IF Falsy(parsed.org) \/ Falsy(parsed.project) \/ Falsy(parsed.repo)
           THEN /\ CommandSettles(i, Throw(Error("Invalid CodeCatalyst URL")), <<>>)
                /\ UNCHANGED resource
           ELSE /\ resource' = [resource EXCEPT ![i] =
                        [name |-> parsed.repo.s, project |-> parsed.project.s, org |-> parsed.org.s]]
                /\ getPat(i, <<>>)
                /\ UNCHANGED completion
    /\ UNCHANGED <<remoteName, call, wc, client, final>>

cloneSelected(i) ==
    /\ pc[i] = "clone.select"
    /\ \E r \in Outcomes("selectCodeCatalystResource", ResourcesOf("repo") \cup {Undefined}) :
          LET done == <<Ev("selectCodeCatalystResource", r.ph, r.val)>>
          IN  IF r.ph = "throw"
              THEN CommandSettles(i, r, done) /\ UNCHANGED resource
              ELSE IF r.val = Undefined
              THEN CommandSettles(i, Throw(CancellationError("user")), done) /\ UNCHANGED resource
              ELSE /\ resource' = [resource EXCEPT ![i] = ResourceOf(r.val)]
                   /\ getPat(i, done)
                   /\ UNCHANGED completion
    /\ UNCHANGED <<remoteName, call, wc, client, final>>

cloneGotPat(i) ==
    /\ pc[i] = "clone.getPat"
    /\ \E r \in Outcomes("getPat", {Value("pat")}) :
          LET done == <<Ev("getPat", r.ph, r.val)>>
          IN  IF r.ph = "throw"
              THEN CommandSettles(i, r, done)
              ELSE /\ Step(i, "clone.getRepoCloneUrl",
                           done \o <<Ev("getRepoCloneUrl", "start",
                                        [spaceName |-> resource[i].org,
                                         projectName |-> resource[i].project,
                                         sourceRepositoryName |-> resource[i].name,
                                         user |-> client[i].identity.name,
                                         pat |-> r.val])>>,
                           {"getRepoCloneUrl"})
                   /\ UNCHANGED completion
    /\ UNCHANGED <<remoteName, call, wc, client, resource, final>>

cloneGotUrl(i) ==
    /\ pc[i] = "clone.getRepoCloneUrl"
    /\ \E r \in Outcomes("getRepoCloneUrl", {Value("clone-uri")}) :
          LET done == <<Ev("getRepoCloneUrl", r.ph, r.val)>>
          IN  IF r.ph = "throw"
              THEN CommandSettles(i, r, done)
              ELSE /\ Step(i, "clone.git", done \o <<Ev("git.clone", "start", [uri |-> r.val])>>,
                           {"git.clone"})
                   /\ UNCHANGED completion
    /\ UNCHANGED <<remoteName, call, wc, client, resource, final>>

cloneCloned(i) ==
    /\ pc[i] = "clone.git"
    /\ \E r \in Outcomes("git.clone", {Undefined}) :
          CommandSettles(i, r, <<Ev("git.clone", r.ph, r.val)>>)
    /\ UNCHANGED <<remoteName, call, wc, client, resource, final>>

openCodeCatalystResource(i) ==
    /\ pc[i] = "openCodeCatalystResource"
    /\ Await(i, "selectCodeCatalystResource", [kind |-> wc[i].args.kind], "open.select", <<>>)
    /\ UNCHANGED <<remoteName, call, wc, client, completion, resource, final>>

\* mutant: the resource is opened without the check for a dismissed selection
openSelectedUnchecked(i) ==
    /\ pc[i] = "open.select"
    /\ \E r \in Outcomes("selectCodeCatalystResource", ResourcesOf(wc[i].args.kind) \cup {Undefined}) :
          LET done == <<Ev("selectCodeCatalystResource", r.ph, r.val)>>
          IN  IF r.ph = "throw"
              THEN CommandSettles(i, r, done)
              ELSE CommandSettles(i, Return(Undefined),
                                  done \o <<Ev("openCodeCatalystUrl", "fire", r.val)>>)
    /\ UNCHANGED <<remoteName, call, wc, client, resource, final>>

openSelected(i) ==
    /\ pc[i] = "open.select"
    /\ \E r \in Outcomes("selectCodeCatalystResource", ResourcesOf(wc[i].args.kind) \cup {Undefined}) :
          LET done == <<Ev("selectCodeCatalystResource", r.ph, r.val)>>
          IN  IF r.ph = "throw"
              THEN CommandSettles(i, r, done)
              ELSE IF r.val = Undefined
              THEN CommandSettles(i, Throw(CancellationError("user")), done)
              ELSE CommandSettles(i, Return(Undefined),
                                  done \o <<Ev("openCodeCatalystUrl", "fire", r.val)>>)
    /\ UNCHANGED <<remoteName, call, wc, client, resource, final>>

stopDevEnvironment(i, before) ==
    Await(i, "client.stopDevEnvironment", DevEnvRequest(wc[i].args.devenv), "client", before)

stopDevEnv(i) ==
    /\ pc[i] = "stopDevEnv"
    /\ IF ShowPrompt(wc[i].args.opts)
       THEN Await(i, "showConfirmationMessage", Undefined, "stop.confirm", <<>>)
       ELSE stopDevEnvironment(i, <<>>)
    /\ UNCHANGED <<remoteName, call, wc, client, completion, resource, final>>

stopConfirmed(i) ==
    /\ pc[i] = "stop.confirm"
    /\ \E r \in Outcomes("showConfirmationMessage", {Value(TRUE), Value(FALSE)}) :
          LET done == <<Ev("showConfirmationMessage", r.ph, r.val)>>
          IN  IF r.ph = "throw"
              THEN CommandSettles(i, r, done)
              ELSE IF ~r.val.v
              THEN CommandSettles(i, Throw(CancellationError("user")), done)
              ELSE /\ Step(i, "client",
                           done \o <<Ev("client.stopDevEnvironment", "start",
                                        DevEnvRequest(wc[i].args.devenv))>>,
                           {"client.stopDevEnvironment"})
                   /\ UNCHANGED completion
    /\ UNCHANGED <<remoteName, call, wc, client, resource, final>>

deleteDevEnv(i) ==
    /\ pc[i] = "deleteDevEnv"
    /\ Await(i, "client.deleteDevEnvironment", DevEnvRequest(wc[i].args.devenv), "client", <<>>)
    /\ UNCHANGED <<remoteName, call, wc, client, completion, resource, final>>

updateDevEnv(i) ==
    /\ pc[i] = "updateDevEnv"
    /\ Await(i, "client.updateDevEnvironment", Spread(wc[i].args.settings, wc[i].args.devenv),
             "client", <<>>)
    /\ UNCHANGED <<remoteName, call, wc, client, completion, resource, final>>

ClientMethod(command) ==
    CASE command = "stopDevEnv" -> "client.stopDevEnvironment"
      [] command = "deleteDevEnv" -> "client.deleteDevEnvironment"
      [] command = "updateDevEnv" -> "client.updateDevEnvironment"

\* the dev-environment request has settled; only updateDevEnv returns the response
clientReturn(i) ==
    /\ pc[i] = "client"
    /\ \E r \in Outcomes(ClientMethod(wc[i].command), {Value("response")}) :
          CommandSettles(i,
                         IF r.ph = "ok" /\ wc[i].command # "updateDevEnv" THEN Return(Undefined) ELSE r,
                         <<Ev(ClientMethod(wc[i].command), r.ph, r.val)>>)
    /\ UNCHANGED <<remoteName, call, wc, client, resource, final>>

(***************************************************************************)
(* The commands of other modules that withClient is given.                 *)
(***************************************************************************)
ExternalCommands ==
    {"showCreateDevEnv", "selectCodeCatalystResource", "openDevEnv", "getConnectedDevEnv",
     "showConfigureDevEnv"}

ExternalValues(command) ==
    CASE command = "selectCodeCatalystResource" -> DevEnvs \cup {Undefined}
      [] command = "getConnectedDevEnv" -> DevEnvs \cup {Undefined}
      [] OTHER -> {Undefined}

externalCommand(i) ==
    /\ pc[i] \in ExternalCommands
    /\ Await(i, pc[i], wc[i].args, "external", <<>>)
    /\ UNCHANGED <<remoteName, call, wc, client, completion, resource, final>>

externalReturn(i) ==
    /\ pc[i] = "external"
    /\ \E r \in Outcomes(wc[i].command, ExternalValues(wc[i].command)) :
          CommandSettles(i, r, <<Ev(wc[i].command, r.ph, r.val)>>)
    /\ UNCHANGED <<remoteName, call, wc, client, resource, final>>

(***************************************************************************)
(* CodeCatalystCommands: the command methods.                              *)
(***************************************************************************)
Invoked(i, cmd) == pc[i] = "start" /\ call[i].cmd = cmd

Commands_cloneRepository(i) ==
    /\ Invoked(i, "cloneRepository")
    /\ withClient(i, "cloneCodeCatalystRepo", [url |-> call[i].url], "return", <<>>)
    /\ UNCHANGED <<remoteName, call, client, completion, resource, final>>

Commands_createDevEnv(i) ==
    /\ Invoked(i, "createDevEnv")
    /\ withClient(i, "showCreateDevEnv", Undefined, "return", <<>>)
    /\ UNCHANGED <<remoteName, call, client, completion, resource, final>>

Commands_openResource(i) ==
    /\ Invoked(i, "openResource")
    /\ withClient(i, "openCodeCatalystResource", [kind |-> call[i].kind], "return", <<>>)
    /\ UNCHANGED <<remoteName, call, client, completion, resource, final>>

Commands_stopDevEnv(i) ==
    /\ Invoked(i, "stopDevEnv")
    /\ withClient(i, "stopDevEnv", [devenv |-> call[i].devenv, opts |-> call[i].opts],
                  "stopDevEnv.then", <<>>)
    /\ UNCHANGED <<remoteName, call, client, completion, resource, final>>

\* mutant: .finally(() => { ... }) in place of .then
Commands_stopDevEnv_finally(i) ==
    /\ pc[i] = "stopDevEnv.then"
    /\ Finish(i, IF completion[i].ph = "ok" THEN Return(Undefined) ELSE completion[i],
              <<Ev("workbench.action.remote.close", "fire", Undefined)>>)
    /\ UNCHANGED <<remoteName, call, wc, client, completion, resource>>

\* .then(() => { vscode.commands.executeCommand('workbench.action.remote.close') })
Commands_stopDevEnv_then(i) ==
    /\ pc[i] = "stopDevEnv.then"
    /\ IF completion[i].ph = "ok"
       THEN Finish(i, Return(Undefined), <<Ev("workbench.action.remote.close", "fire", Undefined)>>)
       ELSE Finish(i, completion[i], <<>>)
    /\ UNCHANGED <<remoteName, call, wc, client, completion, resource>>

Commands_deleteDevEnv(i) ==
    /\ Invoked(i, "deleteDevEnv")
    /\ withClient(i, "deleteDevEnv", [devenv |-> call[i].devenv], "return", <<>>)
    /\ UNCHANGED <<remoteName, call, client, completion, resource, final>>

Commands_updateDevEnv(i) ==
    /\ Invoked(i, "updateDevEnv")
    /\ withClient(i, "updateDevEnv", [devenv |-> call[i].devenv, settings |-> call[i].settings],
                  "return",
                  <<Ev("telemetry.codecatalyst_updateWorkspaceSettings", "fire",
                       [codecatalyst_updateWorkspaceLocationType |-> "remote"])>>)
    /\ UNCHANGED <<remoteName, call, client, completion, resource, final>>

\* mutant: the remote window is refused only when a dev environment must be selected
Commands_openDevEnvLateCheck(i) ==
    /\ Invoked(i, "openDevEnv")
    /\ IF call[i].id # Undefined
       THEN /\ withClient(i, "openDevEnv", [devenv |-> call[i].id], "return", <<>>)
            /\ UNCHANGED final
       ELSE IF remoteName = "ssh-remote"
       THEN /\ Finish(i, Throw(ToolkitError("ConnectedToRemote")), <<>>)
            /\ UNCHANGED wc
       ELSE /\ withClient(i, "selectCodeCatalystResource", [kind |-> "devEnvironment"],
                          "selectDevEnv", <<>>)
            /\ UNCHANGED final
    /\ UNCHANGED <<remoteName, call, client, completion, resource>>

Commands_openDevEnv(i) ==
    /\ Invoked(i, "openDevEnv")
    /\ IF remoteName = "ssh-remote"
       THEN /\ Finish(i, Throw(ToolkitError("ConnectedToRemote")), <<>>)
            /\ UNCHANGED wc
       ELSE IF call[i].id # Undefined
       THEN /\ withClient(i, "openDevEnv", [devenv |-> call[i].id], "return", <<>>)
            /\ UNCHANGED final
       ELSE /\ withClient(i, "selectCodeCatalystResource", [kind |-> "devEnvironment"],
                          "selectDevEnv", <<>>)
            /\ UNCHANGED final
    /\ UNCHANGED <<remoteName, call, client, completion, resource>>

\* selectDevEnv after its withClient, then the rest of openDevEnv (id is undefined here)
Commands_selectDevEnv(i) ==
    /\ pc[i] = "selectDevEnv"
    /\ IF completion[i].ph = "throw"
       THEN Finish(i, completion[i], <<>>) /\ UNCHANGED wc
       ELSE IF completion[i].val = Undefined
       THEN Finish(i, Throw(CancellationError("user")), <<>>) /\ UNCHANGED wc
       ELSE /\ withClient(i, "openDevEnv", [devenv |-> completion[i].val], "return",
                          <<Ev("telemetry.codecatalyst_connect", "fire",
                               [source |-> "CommandPalette"])>>)
            /\ UNCHANGED final
    /\ UNCHANGED <<remoteName, call, client, completion, resource>>

Commands_openDevEnvSettings(i) ==
    /\ Invoked(i, "openDevEnvSettings")
    /\ withClient(i, "getConnectedDevEnv", Undefined, "openDevEnvSettings", <<>>)
    /\ UNCHANGED <<remoteName, call, client, completion, resource, final>>

Commands_openDevEnvSettings_devenv(i) ==
    /\ pc[i] = "openDevEnvSettings"
    /\ IF completion[i].ph = "throw"
       THEN Finish(i, completion[i], <<>>) /\ UNCHANGED wc
       ELSE IF completion[i].val = Undefined
       THEN Finish(i, Throw(Error("No devenv available")), <<>>) /\ UNCHANGED wc
       ELSE /\ withClient(i, "showConfigureDevEnv", [devenv |-> completion[i].val], "return", <<>>)
            /\ UNCHANGED final
    /\ UNCHANGED <<remoteName, call, client, completion, resource>>

\* return this.withClient(...)
Commands_return(i) ==
    /\ pc[i] = "return"
    /\ Finish(i, completion[i], <<>>)
    /\ UNCHANGED <<remoteName, call, wc, client, completion, resource>>

InvocationStep(i) ==
    \/ Commands_cloneRepository(i)
    \/ Commands_createDevEnv(i)
    \/ Commands_openResource(i)
    \/ Commands_stopDevEnv(i)
    \/ Commands_stopDevEnv_then(i)
    \/ Commands_deleteDevEnv(i)
    \/ Commands_updateDevEnv(i)
    \/ Commands_openDevEnv(i)
    \/ Commands_selectDevEnv(i)
    \/ Commands_openDevEnvSettings(i)
    \/ Commands_openDevEnvSettings_devenv(i)
    \/ Commands_return(i)
    \/ clientFactoryReturn(i)
    \/ withClientFinally(i)
    \/ cloneCodeCatalystRepo(i)
    \/ cloneSelected(i)
    \/ cloneGotPat(i)
    \/ cloneGotUrl(i)
    \/ cloneCloned(i)
    \/ openCodeCatalystResource(i)
    \/ openSelected(i)
    \/ stopDevEnv(i)
    \/ stopConfirmed(i)
    \/ deleteDevEnv(i)
    \/ updateDevEnv(i)
    \/ clientReturn(i)
    \/ externalCommand(i)
    \/ externalReturn(i)

Next == \E i \in Invocations : InvocationStep(i)

Spec == Init /\ [][Next]_vars

\* two commands are invoked and interleave; the arguments are a sample of Calls
SamplePaths == { <<"/", "a", "/", "a", "a", "/", "a", "/", "a">>, <<"/", "a", "/", "a">> }

SampleCalls ==
    { c \in CallsWith(SamplePaths) :
        /\ "devenv" \in DOMAIN c => c.devenv = DevEnv("e1", "p1", "o1")
        /\ "id" \in DOMAIN c => c.id \in {Undefined, DevEnv("e1", "p1", "o1")}
        /\ "opts" \in DOMAIN c => c.opts \in {Undefined, [tag |-> "opts", showPrompt |-> TRUE]}
        /\ "settings" \in DOMAIN c => DOMAIN c.settings = {"alias"}
        /\ "kind" \in DOMAIN c => c.kind = "repo" }

InitConcurrent == InitWith(SampleCalls, SampleCalls)

SpecConcurrent == InitConcurrent /\ [][Next]_vars

(***************************************************************************)
(* Reading the trace.                                                      *)
(***************************************************************************)
Positions(i, op, phs) == { k \in 1..Len(trace[i]) : trace[i][k].op = op /\ trace[i][k].ph \in phs }

Settle == {"ok", "throw"}

Happened(i, op, phs) == Positions(i, op, phs) # {}

\* the events of the withClient call that starts at position s
CallOf(i, s) ==
    { k \in s..Len(trace[i]) : \A j \in Positions(i, "withClient", {"start"}) : j <= s \/ k < j }

In(i, s, op, phs) == Positions(i, op, phs) \cap CallOf(i, s)

The(S) == CHOOSE x \in S : TRUE

(***************************************************************************)
(* C1.  withClient and the telemetry user identifier.                      *)
(***************************************************************************)
\* the identifier of a withClient call is recorded after the command of that call settled,
\* and never while the command runs
RecordedAfterCommand(i, s) ==
    \A t \in In(i, s, "telemetry.userId", {"fire"}) :
        /\ \A c \in In(i, s, "command", {"start"}) :
              c < t /\ \E d \in In(i, s, "command", Settle) : c < d /\ d < t
        /\ In(i, s, "clientFactory", {"ok"}) # {}

\* C1 as stated: every call of withClient that has settled recorded the user identifier
\* exactly once, after the command.  The code violates it: a rejected client factory
\* settles withClient with nothing recorded.
C1_EveryCallRecordsOnce ==
    \A i \in Invocations : \A s \in Positions(i, "withClient", {"start"}) :
        /\ RecordedAfterCommand(i, s)
        /\ In(i, s, "withClient", Settle) # {} =>
              Cardinality(In(i, s, "telemetry.userId", {"fire"})) = 1

\* C1 amended: every call of withClient whose client factory returned a client records
\* the user identifier exactly once, after the command has settled (returned, threw, or
\* was not invoked for want of a connection) and before withClient settles; a call whose
\* client factory failed settles with that failure and records nothing.
C1_RecordsOnceGivenClient ==
    \A i \in Invocations : \A s \in Positions(i, "withClient", {"start"}) :
        /\ RecordedAfterCommand(i, s)
        /\ Cardinality(In(i, s, "telemetry.userId", {"fire"})) <= 1
        /\ \A e \in In(i, s, "withClient", Settle) :
              IF In(i, s, "clientFactory", {"ok"}) # {}
              THEN /\ Cardinality(In(i, s, "telemetry.userId", {"fire"})) = 1
                   /\ The(In(i, s, "telemetry.userId", {"fire"})) < e
              ELSE /\ In(i, s, "telemetry.userId", {"fire"}) = {}
                   /\ In(i, s, "clientFactory", {"throw"}) # {}
                   /\ trace[i][e].ph = "throw"
                   /\ trace[i][e].val = trace[i][The(In(i, s, "clientFactory", {"throw"}))].val

\* a command that threw, inside a withClient call that recorded the identifier and settled
C1_Witness ==
    \E i \in Invocations : \E s \in Positions(i, "withClient", {"start"}) :
        /\ In(i, s, "command", {"throw"}) # {}
        /\ In(i, s, "telemetry.userId", {"fire"}) # {}
        /\ In(i, s, "withClient", {"throw"}) # {}

(***************************************************************************)
(* C2.  withClient: the connection check and the propagation of the result.*)
(***************************************************************************)
\* C2: with a client that is not connected, withClient fails with ToolkitError
\* 'NoConnection' and the command is not invoked; with a connected client the command is
\* invoked exactly once, with that client and the arguments withClient was given, and
\* withClient settles exactly as the command did.
C2_ConnectionCheckAndPropagation ==
    \A i \in Invocations : \A s \in Positions(i, "withClient", {"start"}) :
        \A f \in In(i, s, "clientFactory", {"ok"}) :
            IF trace[i][f].val.connected
            THEN /\ Cardinality(In(i, s, "command", {"start"})) = 1
                 /\ trace[i][The(In(i, s, "command", {"start"}))].val =
                        [client |-> trace[i][f].val, args |-> trace[i][s].val.args]
                 /\ Cardinality(In(i, s, "command", Settle)) <= 1
                 /\ \A e \in In(i, s, "withClient", Settle) :
                        /\ In(i, s, "command", Settle) # {}
                        /\ trace[i][e].ph = trace[i][The(In(i, s, "command", Settle))].ph
                        /\ trace[i][e].val = trace[i][The(In(i, s, "command", Settle))].val
            ELSE /\ In(i, s, "command", {"start", "ok", "throw"}) = {}
                 /\ In(i, s, "withClient", Settle) # {}
                 /\ \A e \in In(i, s, "withClient", Settle) :
                        /\ trace[i][e].ph = "throw"
                        /\ trace[i][e].val = [tag |-> "error", class |-> "ToolkitError",
                                              code |-> "NoConnection"]

\* one invocation with a withClient call that propagated a command's value and a later
\* withClient call that was refused for want of a connection
C2_Witness ==
    \E i \in Invocations : \E s, t \in Positions(i, "withClient", {"start"}) :
        /\ s < t
        /\ \E e \in In(i, s, "withClient", {"ok"}) : trace[i][e].val # Undefined
        /\ \E f \in In(i, t, "clientFactory", {"ok"}) : ~trace[i][f].val.connected
        /\ In(i, t, "withClient", {"throw"}) # {}

(***************************************************************************)
(* C3.  stopDevEnv: the confirmation.                                      *)
(***************************************************************************)
Declined(i) ==
    \E k \in Positions(i, "showConfirmationMessage", {"ok"}) : trace[i][k].val = Value(FALSE)

PromptAsked(i) == call[i].opts = [tag |-> "opts", showPrompt |-> TRUE]

StopCalled(i) == Happened(i, "client.stopDevEnvironment", {"start"})

\* C3: in stopDevEnv, with opts.showPrompt set and the confirmation declined,
\* CancellationError('user') is thrown and client.stopDevEnvironment is never called; with
\* showPrompt not set no confirmation is shown and client.stopDevEnvironment is called
\* as soon as stopDevEnv runs.
C3_StopConfirmation ==
    \A i \in Invocations :
        (call[i].cmd = "stopDevEnv" /\ Happened(i, "command", {"start"})) =>
            /\ (PromptAsked(i) /\ Declined(i)) =>
                  /\ ~StopCalled(i)
                  /\ \E k \in Positions(i, "command", {"throw"}) :
                        trace[i][k].val = [tag |-> "error", class |-> "CancellationError",
                                           code |-> "user"]
            /\ (PromptAsked(i) /\ StopCalled(i)) =>
                  \E k \in Positions(i, "showConfirmationMessage", {"ok"}) :
                      /\ trace[i][k].val = Value(TRUE)
                      /\ k < The(Positions(i, "client.stopDevEnvironment", {"start"}))
            /\ ~PromptAsked(i) =>
                  /\ ~Happened(i, "showConfirmationMessage", {"start", "ok", "throw"})
                  /\ pc[i] # "stopDevEnv" => StopCalled(i)

\* the user declined and the command method has failed
C3_Witness ==
    \E i \in Invocations :
        /\ call[i].cmd = "stopDevEnv" /\ PromptAsked(i) /\ Declined(i)
        /\ pc[i] = "done" /\ final[i].ph = "throw"

(***************************************************************************)
(* C4.  The dev-environment operations pass the identifiers through.       *)
(***************************************************************************)
ClientStarts(i) ==
    { k \in 1..Len(trace[i]) :
        /\ trace[i][k].ph = "start"
        /\ trace[i][k].op \in {"client.stopDevEnvironment", "client.deleteDevEnvironment",
                               "client.updateDevEnvironment"} }

MethodFor(cmd) ==
    IF cmd = "stopDevEnv" THEN "client.stopDevEnvironment"
    ELSE IF cmd = "deleteDevEnv" THEN "client.deleteDevEnvironment"
    ELSE "client.updateDevEnvironment"

\* C4: stopDevEnv (confirmed or unprompted), deleteDevEnv and updateDevEnv each make
\* exactly one call, to the client method of their name, with id, projectName and spaceName
\* those of the dev environment; the settings of updateDevEnv are passed along and cannot
\* replace these three.
C4_PassThrough ==
    \A i \in Invocations :
        call[i].cmd \in {"stopDevEnv", "deleteDevEnv", "updateDevEnv"} =>
            /\ Cardinality(ClientStarts(i)) <= 1
            /\ (Happened(i, "command", {"ok"}) \/ pc[i] = "client") =>
                  Cardinality(ClientStarts(i)) = 1
            /\ \A k \in ClientStarts(i) :
                  /\ trace[i][k].op = MethodFor(call[i].cmd)
                  /\ trace[i][k].val["id"] = call[i].devenv.id
                  /\ trace[i][k].val["projectName"] = call[i].devenv.project.name
                  /\ trace[i][k].val["spaceName"] = call[i].devenv.org.name
                  /\ IF call[i].cmd = "updateDevEnv"
                     THEN /\ DOMAIN trace[i][k].val =
                                DOMAIN call[i].settings \cup {"id", "projectName", "spaceName"}
                          /\ "alias" \in DOMAIN call[i].settings =>
                                trace[i][k].val["alias"] = call[i].settings["alias"]
                     ELSE DOMAIN trace[i][k].val = {"id", "projectName", "spaceName"}

\* updateDevEnv has returned, with settings that name an id, a project and a space
C4_Witness ==
    \E i \in Invocations :
        /\ call[i].cmd = "updateDevEnv"
        /\ {"id", "projectName", "spaceName", "alias"} \subseteq DOMAIN call[i].settings
        /\ pc[i] = "done" /\ final[i] = Return(Value("response"))

(***************************************************************************)
(* C5.  One request in flight per invocation.                              *)
(***************************************************************************)
\* the awaited calls: every started event but the two wrappers
Requests(i) ==
    { k \in 1..Len(trace[i]) : trace[i][k].ph = "start" /\ trace[i][k].op \notin {"withClient", "command"} }

Answered(i, k, before) ==
    \E d \in (k + 1)..(before - 1) : trace[i][d].op = trace[i][k].op /\ trace[i][d].ph \in Settle

OneInFlight ==
    \A i \in Invocations :
        /\ Cardinality(pending[i]) <= 1
        /\ \A k, l \in Requests(i) : k < l => Answered(i, k, l)
        /\ Cardinality({ k \in Requests(i) : ~Answered(i, k, Len(trace[i]) + 1) }) = Cardinality(pending[i])

StateOf(i) == <<call[i], pc[i], wc[i], client[i], completion[i], resource[i], trace[i], pending[i], final[i]>>

StepsAlone ==
    \E i \in Invocations :
        /\ \A j \in Invocations \ {i} : StateOf(j)' = StateOf(j)
        /\ remoteName' = remoteName

\* C5: within one invocation a call to the client factory, the resource selection, the PAT
\* retrieval, the clone-URL lookup, a prompt or a client method starts only when the
\* previous one of that invocation has settled, so at most one is in flight; and a step
\* of one invocation reads and changes nothing of another.
C5_SingleInFlight == []OneInFlight /\ [][StepsAlone]_vars

\* both invocations have a request in flight at the same time, the first one its
\* clone-URL lookup
C5_Witness ==
    /\ pending["i1"] = {"getRepoCloneUrl"}
    /\ Cardinality(pending["i2"]) = 1
    /\ Happened("i1", "getPat", {"ok"})

(***************************************************************************)
(* C6.  CodeCatalystCommands.stopDevEnv closes the remote window.          *)
(***************************************************************************)
Closes(i) == Positions(i, "workbench.action.remote.close", {"fire"})

\* C6: the stopDevEnv method issues 'workbench.action.remote.close' once, after
\* withClient(stopDevEnv) has settled without error; when the prompt is declined, the
\* client is not connected or the stop request fails, the window is never closed and
\* the method fails with the error of withClient.
C6_CloseAfterStop ==
    \A i \in Invocations :
        call[i].cmd = "stopDevEnv" =>
            /\ \A k \in Closes(i) : \E e \in Positions(i, "withClient", {"ok"}) : e < k
            /\ Happened(i, "withClient", {"throw"}) => Closes(i) = {}
            /\ pc[i] = "done" =>
                  IF Happened(i, "withClient", {"throw"})
                  THEN /\ final[i].ph = "throw"
                       /\ final[i].val = trace[i][The(Positions(i, "withClient", {"throw"}))].val
                  ELSE /\ Cardinality(Closes(i)) = 1
                       /\ Happened(i, "client.stopDevEnvironment", {"ok"})
                       /\ final[i].ph = "ok"

\* the stop request failed and the method has failed, the window still open
C6_Witness ==
    \E i \in Invocations :
        /\ call[i].cmd = "stopDevEnv"
        /\ Happened(i, "client.stopDevEnvironment", {"throw"})
        /\ pc[i] = "done" /\ final[i].ph = "throw" /\ Closes(i) = {}

(***************************************************************************)
(* C7.  cloneCodeCatalystRepo with a url.                                  *)
(***************************************************************************)
Slashes(p) == { k \in 1..Len(p) : p[k] = "/" }

\* the position of the n-th '/' of p
SlashNo(p, n) == CHOOSE k \in Slashes(p) : Cardinality({ j \in Slashes(p) : j < k }) = n - 1

\* the n-th segment of p after its leading slash: what lies between the n-th '/' and the next
SegmentNo(p, n) ==
    SubSeq(p, SlashNo(p, n) + 1,
           IF Cardinality(Slashes(p)) > n THEN SlashNo(p, n + 1) - 1 ELSE Len(p))

HasSegment(p, n) == Cardinality(Slashes(p)) >= n /\ SegmentNo(p, n) # <<>>

InvalidUrl(i) ==
    \E k \in Positions(i, "command", {"throw"}) :
        trace[i][k].val = [tag |-> "error", class |-> "Error", code |-> "Invalid CodeCatalyst URL"]

CloneRequests(i) ==
    Positions(i, "getPat", {"start"}) \cup Positions(i, "getRepoCloneUrl", {"start"})
        \cup Positions(i, "git.clone", {"start"})

\* C7: cloneCodeCatalystRepo with a url takes org, project and repository from the
\* second, third and fourth segment of the path after its leading slash; when one of them
\* is missing or empty it throws 'Invalid CodeCatalyst URL' with no PAT retrieval, no
\* clone-URL lookup and no 'git.clone'; otherwise it asks for no selection, and runs
\* 'git.clone' once, as soon as the PAT retrieval and then the clone-URL lookup have
\* returned.
C7_CloneFromUrl ==
    \A i \in Invocations :
        (call[i].cmd = "cloneRepository" /\ call[i].url # Undefined
            /\ Happened(i, "command", {"start"}) /\ pc[i] # "cloneCodeCatalystRepo") =>
            LET p == call[i].url.path
            IN  /\ ~Happened(i, "selectCodeCatalystResource", {"start"})
                /\ InvalidUrl(i) => CloneRequests(i) = {}
                /\ Cardinality(Positions(i, "git.clone", {"start"})) <= 1
                /\ \A g \in Positions(i, "git.clone", {"start"}) :
                      \E a \in Positions(i, "getPat", {"ok"}) :
                          \E b \in Positions(i, "getRepoCloneUrl", {"start"}) :
                              \E c \in Positions(i, "getRepoCloneUrl", {"ok"}) :
                                  a < b /\ b < c /\ c < g
                /\ Happened(i, "getRepoCloneUrl", {"ok"}) => Happened(i, "git.clone", {"start"})
                /\ (Len(p) > 0 /\ p[1] = "/") =>
                      IF HasSegment(p, 2) /\ HasSegment(p, 3) /\ HasSegment(p, 4)
                      THEN /\ ~InvalidUrl(i)
                           /\ Happened(i, "getPat", {"start"})
                           /\ \A k \in Positions(i, "getRepoCloneUrl", {"start"}) :
                                 /\ trace[i][k].val.spaceName = SegmentNo(p, 2)
                                 /\ trace[i][k].val.projectName = SegmentNo(p, 3)
                                 /\ trace[i][k].val.sourceRepositoryName = SegmentNo(p, 4)
                      ELSE InvalidUrl(i)

\* the repository of /a/aa/a/a has been cloned
C7_Witness ==
    \E i \in Invocations :
        /\ call[i].cmd = "cloneRepository"
        /\ call[i].url = [tag |-> "uri", path |-> <<"/", "a", "/", "a", "a", "/", "a", "/", "a">>]
        /\ Happened(i, "git.clone", {"ok"})
        /\ pc[i] = "done" /\ final[i] = Return(Undefined)

(***************************************************************************)
(* C8.  A dismissed selection cancels the command.                         *)
(***************************************************************************)
Dismissed(i) ==
    { k \in Positions(i, "selectCodeCatalystResource", {"ok"}) : trace[i][k].val = Undefined }

Downstream ==
    {"openCodeCatalystUrl", "getPat", "getRepoCloneUrl", "git.clone",
     "telemetry.codecatalyst_connect", "openDevEnv"}

\* C8: when a resource selection returns nothing, openCodeCatalystResource opens no URL,
\* cloneCodeCatalystRepo retrieves no PAT and runs no 'git.clone', openDevEnv records no
\* connect telemetry and does not call the model's openDevEnv, and the command method
\* fails with CancellationError('user').
C8_DismissedSelectionCancels ==
    \A i \in Invocations :
        Dismissed(i) # {} =>
            /\ call[i].cmd \in {"openResource", "cloneRepository", "openDevEnv"}
            /\ \A k \in 1..Len(trace[i]) : trace[i][k].op \notin Downstream
            /\ Cardinality(Positions(i, "withClient", {"start"})) = 1
            /\ pc[i] = "done" =>
                  final[i] = [ph |-> "throw",
                              val |-> [tag |-> "error", class |-> "CancellationError", code |-> "user"]]

\* openDevEnv without an id, the selection dismissed, the method settled
C8_Witness ==
    \E i \in Invocations :
        call[i].cmd = "openDevEnv" /\ Dismissed(i) # {} /\ pc[i] = "done"

(***************************************************************************)
(* C9.  openDevEnv from a remote window.                                   *)
(***************************************************************************)
\* C9: openDevEnv invoked in a window whose remote name is 'ssh-remote' fails with
\* ToolkitError 'ConnectedToRemote' and does nothing else: no client factory call, no
\* selection, no telemetry.
C9_RefusedFromRemote ==
    \A i \in Invocations :
        (call[i].cmd = "openDevEnv" /\ remoteName = "ssh-remote") =>
            /\ trace[i] = <<>>
            /\ pending[i] = {}
            /\ pc[i] \in {"start", "done"}
            /\ pc[i] = "done" =>
                  final[i] = [ph |-> "throw",
                              val |-> [tag |-> "error", class |-> "ToolkitError",
                                       code |-> "ConnectedToRemote"]]

\* openDevEnv was refused in an ssh-remote window
C9_Witness ==
    \E i \in Invocations :
        call[i].cmd = "openDevEnv" /\ remoteName = "ssh-remote" /\ pc[i] = "done"

====
